---- MODULE Spec2Model ----
(***************************************************************************)
(* Third-person character controller: the Unit (locomotion, collision,     *)
(* animation selection), the GameCanvas host (character load and hot-swap, *)
(* frame loop, camera orbit) and the gamepad poll of useControls.          *)
(*                                                                         *)
(* Numbers are fixed point.  Lengths are in 1/1000 of a world unit,        *)
(* velocities in 1/1000 unit per second, times in milliseconds, move       *)
(* intents and direction cosines in 1/1000, angles in 1/10000 radian.      *)
(* A product of two fixed-point numbers is divided back by its scale and   *)
(* rounded to the nearest integer (RoundDiv).                              *)
(***************************************************************************)
EXTENDS Integers, Sequences, FiniteSets, TLC

VARIABLES
    initialized,    \* GameCanvas: initialized.current, the init effect has run
    customModelUrl, \* GameCanvas: the customModelUrl prop
    units,          \* every Unit/Character object created so far, by creation order
    charRef,        \* GameCanvas: characterInstanceRef.current (0 is null)
    inScene,        \* ids of the units whose group is a child of the scene
    pending,        \* asset loads in flight: [id, swap] (swap: awaited by loadChar)
    obstacles,      \* GameCanvas: obstaclesRef.current, as world-space boxes
    controls,       \* useControls: controlState.current
    joystick,       \* useControls: joystickState.current
    gamepad,        \* navigator.getGamepads()[0]
    cameraOrbit,    \* GameCanvas: cameraOrbit.current
    isDragging,     \* GameCanvas: isDragging.current
    previousMouse,  \* GameCanvas: previousMouse.current
    testAnim,       \* GameCanvas: testAnimRef.current
    running,        \* a next animate frame is scheduled
    last,           \* what the last handler did: calls made, unit before and between
    prevOp,         \* the handler before the last one
    nCalls,         \* number of handlers run so far
    now,            \* milliseconds since the page was loaded
    timeouts,       \* App: pending setTimeout callbacks, [flag, due]
    held            \* the keyboard: codes of the keys that are down (followed in
                    \* SpecHeld; the key handlers neither read nor write it)

vars == <<initialized, customModelUrl, units, charRef, inScene, pending, obstacles,
          controls, joystick, gamepad, cameraOrbit, isDragging, previousMouse,
          testAnim, running, last, prevOp, nCalls, now, timeouts, held>>

(***************************************************************************)
(* Program constants.                                                      *)
(***************************************************************************)
Radius == 500
Height == 1600
WalkSpeed == 6000
RunSpeed == 12000
JumpVelocity == 13000
Gravity == 32
DeadZone == 50
RunThreshold == 7000
WalkThreshold == 500
PI == 31416
PhiMin == -2000
PhiMax == 13000
PhiRest == 3000
DragGain == 80
MaxDelta == 100
GamepadThreshold == 150
RunButton == 10
PulseMs == 100

(***************************************************************************)
(* Bounds of the model.                                                    *)
(***************************************************************************)
MaxCalls == 2
MaxTicks == 2
MaxUnits == 3
MaxFrames == 4
MaxSteps == 60
MaxTime == 300
MaxDash == 24

(***************************************************************************)
(* Arithmetic.                                                             *)
(***************************************************************************)
Abs(n) == IF n < 0 THEN -n ELSE n

Min2(a, b) == IF a < b THEN a ELSE b

Max2(a, b) == IF a > b THEN a ELSE b

\* n / d rounded to the nearest integer (d > 0), as a double rounds a quotient
RoundDiv(n, d) == (2 * n + d) \div (2 * d)

\* one step of the digit-by-digit square root: r keeps bit b when (r + b)^2 <= n
SqrtBit(n, r, b) == IF (r + b) * (r + b) <= n THEN r + b ELSE r

\* the largest r with r * r <= n, for 0 <= n < 2^30
FloorSqrt(n) ==
    SqrtBit(n, SqrtBit(n, SqrtBit(n, SqrtBit(n, SqrtBit(n,
    SqrtBit(n, SqrtBit(n, SqrtBit(n, SqrtBit(n, SqrtBit(n,
    SqrtBit(n, SqrtBit(n, SqrtBit(n, SqrtBit(n, SqrtBit(n, 0,
    16384), 8192), 4096), 2048), 1024), 512), 256), 128), 64), 32), 16), 8), 4), 2), 1)

\* the root r or r + 1, whichever is nearer to the square root of n
NearestRoot(n, r) == IF n - r * r > r THEN r + 1 ELSE r

\* Math.sqrt, rounded to the nearest integer
Sqrt(n) == NearestRoot(n, FloorSqrt(n))

\* a * b / d without an intermediate product beyond 32 bits (d > 0, |b| <= d)
MulDiv(a, b, d) == (a \div d) * b + RoundDiv((a % d) * b, d)

\* THREE.MathUtils.clamp
ClampNoUpper(v, lo, hi) == Max2(lo, v)

Clamp(v, lo, hi) == Max2(lo, Min2(hi, v))

\* THREE.MathUtils.lerp(x, y, t) = (1 - t) * x + t * y, t in percent
Lerp(x, y, t) == RoundDiv((100 - t) * x + t * y, 100)

(***************************************************************************)
(* Angles.  Math.sin and Math.cos are Bhaskara's rational approximation    *)
(* (exact at multiples of pi/2, within 0.002 elsewhere), Math.atan2 the    *)
(* octant-reduced quadratic approximation (exact on the axes and the       *)
(* diagonals, within 0.004 rad elsewhere).                                 *)
(***************************************************************************)
Bhaskara(p) == RoundDiv(160 * p, RoundDiv(5 * RoundDiv(PI * PI, 100) - 4 * p, 100))

SinHalf(x) == Bhaskara(RoundDiv(x * (PI - x), 100))

SinWrapped(x) == IF x <= PI THEN SinHalf(x) ELSE -SinHalf(x - PI)

Sin(a) == SinWrapped(a % (2 * PI))

Cos(a) == Sin(a + PI \div 2)

AtanUnit(t) == RoundDiv(t * (PI \div 4 + RoundDiv(2730 * (1000 - t), 1000)), 1000)

\* the angle of (ax, ay) in the first quadrant
AtanQuadrant(ay, ax) ==
    IF ay = 0 /\ ax = 0 THEN 0
    ELSE IF ay <= ax THEN AtanUnit(RoundDiv(1000 * ay, ax))
    ELSE PI \div 2 - AtanUnit(RoundDiv(1000 * ax, ay))

\* Math.atan2(y, x), in (-PI, PI]
Atan2(y, x) ==
    IF y < 0
    THEN -(IF x < 0 THEN PI - AtanQuadrant(-y, -x) ELSE AtanQuadrant(-y, x))
    ELSE IF x < 0 THEN PI - AtanQuadrant(y, -x) ELSE AtanQuadrant(y, x)

\* the two while loops of update, left out
WrapAngleNoLoop(diff) == diff

\* the two while loops of update: 2 PI is added while diff < -PI, then
\* subtracted while diff > PI
WrapAngle(diff) ==
    IF diff < -PI THEN ((diff + PI) % (2 * PI)) - PI
    ELSE IF diff > PI THEN PI - ((PI - diff) % (2 * PI))
    ELSE diff

(***************************************************************************)
(* Vectors (THREE.Vector3) and boxes (THREE.Box3).                         *)
(***************************************************************************)
Vec(x, y, z) == [x |-> x, y |-> y, z |-> z]

Zero3 == Vec(0, 0, 0)

VAdd(a, b) == Vec(a.x + b.x, a.y + b.y, a.z + b.z)

VSub(a, b) == Vec(a.x - b.x, a.y - b.y, a.z - b.z)

Dot(a, b) == a.x * b.x + a.y * b.y + a.z * b.z

Cross(a, b) == Vec(a.y * b.z - a.z * b.y, a.z * b.x - a.x * b.z, a.x * b.y - a.y * b.x)

Box(lo, hi) == [min |-> lo, max |-> hi]

\* Box3.clampPoint
ClampPoint(box, p) ==
    Vec(Clamp(p.x, box.min.x, box.max.x),
        Clamp(p.y, box.min.y, box.max.y),
        Clamp(p.z, box.min.z, box.max.z))

\* whether the offset d from the closest box point is within r
Within(d, r) ==
    /\ Abs(d.x) <= r /\ Abs(d.y) <= r /\ Abs(d.z) <= r
    /\ Dot(d, d) <= r * r

\* Box3.intersectsSphere: the closest box point is within r of the centre
IntersectsSphere(box, c, r) == Within(VSub(c, ClampPoint(box, c)), r)

\* v minus vn / nn times n
Reject(v, n, vn, nn) ==
    Vec(v.x - MulDiv(vn, n.x, nn), v.y - MulDiv(vn, n.y, nn), v.z - MulDiv(vn, n.z, nn))

\* a slide that keeps the velocity as it is
KeepVelocity(v, n) == v

\* Vector3.projectOnPlane(n): v minus its projection on n; a zero n changes nothing
ProjectOnPlane(v, n) == IF Dot(n, n) = 0 THEN v ELSE Reject(v, n, Dot(v, n), Dot(n, n))

(***************************************************************************)
(* Unit (src/entities/Unit.ts).                                            *)
(***************************************************************************)
NoOverride == "null"

\* the clip names of the asset behind a URL; "default" is MODEL_URL
Clips(url) ==
    IF url = "default" THEN {"Idle", "Walking", "Running", "Jump", "Dance"}
    ELSE IF url = "a.glb" THEN {"Idle", "Walking", "Running", "Jump"}
    ELSE {"Idle", "Wave"}

\* constructor; url is the asset its load is asked for
NewUnit(url) ==
    [position |-> Zero3, velocity |-> Zero3, rotY |-> 0, isGrounded |-> FALSE,
     mixer |-> FALSE, actions |-> {}, currentAction |-> "Idle",
     capStart |-> Vec(0, Radius, 0), capEnd |-> Vec(0, Height - Radius, 0),
     url |-> url, disposed |-> FALSE, raced |-> FALSE]

\* load, after loadAsync has resolved: mixer and animation table
Loaded(u) == [u EXCEPT !.mixer = TRUE, !.actions = Clips(u.url)]

\* an intent that adds the stick to the keys
MoveIntentSum(c, j) ==
    [x |-> (IF c.right THEN 1000 ELSE 0) - (IF c.left THEN 1000 ELSE 0)
             + (IF j.active THEN j.x ELSE 0),
     z |-> (IF c.forward THEN 1000 ELSE 0) - (IF c.backward THEN 1000 ELSE 0)
             - (IF j.active THEN j.y ELSE 0)]

\* update, step 1: the planar move intent (moveX, moveZ)
MoveIntent(c, j) ==
    IF j.active THEN [x |-> j.x, z |-> -j.y]
    ELSE [x |-> (IF c.right THEN 1000 ELSE 0) - (IF c.left THEN 1000 ELSE 0),
          z |-> (IF c.forward THEN 1000 ELSE 0) - (IF c.backward THEN 1000 ELSE 0)]

InputMag(m) == Min2(Sqrt(m.x * m.x + m.z * m.z), 1000)

\* forward * moveZ + right * moveX, for the given sine and cosine of cameraTheta
AddScaled(m, sin, cos) ==
    [x |-> RoundDiv((-sin) * m.z + cos * m.x, 100),
     z |-> RoundDiv((-cos) * m.z + (-sin) * m.x, 100)]

\* v divided by its length len; Vector3.normalize leaves a zero vector zero
Scaled(v, len) ==
    IF len = 0 THEN [x |-> 0, z |-> 0]
    ELSE [x |-> RoundDiv(1000 * v.x, len), z |-> RoundDiv(1000 * v.z, len)]

Normalize(v) == Scaled(v, Sqrt(v.x * v.x + v.z * v.z))

\* moveDir: the camera-relative, normalized move direction (x, z)
MoveDir(m, cameraTheta) == Normalize(AddScaled(m, Sin(cameraTheta), Cos(cameraTheta)))

\* the two branches of update on inputMag: turn and accelerate, or slow down
Steer(u, speed, inputMag, moveDir) ==
    IF inputMag > DeadZone
    THEN [u EXCEPT
            !.rotY = u.rotY
                     + RoundDiv(15 * WrapAngle(Atan2(moveDir.x, moveDir.z) - u.rotY), 100),
            !.velocity.x = Lerp(u.velocity.x,
                                RoundDiv(RoundDiv(moveDir.x * speed, 1000) * inputMag, 1000), 15),
            !.velocity.z = Lerp(u.velocity.z,
                                RoundDiv(RoundDiv(moveDir.z * speed, 1000) * inputMag, 1000), 15)]
    ELSE [u EXCEPT
            !.velocity.x = Lerp(u.velocity.x, 0, 15),
            !.velocity.z = Lerp(u.velocity.z, 0, 15)]

\* a unit that always moves at the boosted speed
HorizontalBoosted(u, c, j, cameraTheta) ==
    Steer(u, RunSpeed, InputMag(MoveIntent(c, j)), MoveDir(MoveIntent(c, j), cameraTheta))

\* update, step 1: heading and horizontal velocity
Horizontal(u, c, j, cameraTheta) ==
    Steer(u, IF c.run THEN RunSpeed ELSE WalkSpeed, InputMag(MoveIntent(c, j)),
          MoveDir(MoveIntent(c, j), cameraTheta))

\* a jump that leaves the unit grounded
VerticalKeepsGrounded(u, c, delta) ==
    IF u.isGrounded
    THEN [u EXCEPT !.velocity.y = IF c.jump THEN JumpVelocity ELSE 0]
    ELSE [u EXCEPT !.velocity.y = u.velocity.y - Gravity * delta]

\* a jump that is also taken in the air
VerticalAirJump(u, c, delta) ==
    IF c.jump
    THEN [u EXCEPT !.velocity.y = JumpVelocity, !.isGrounded = FALSE]
    ELSE IF u.isGrounded THEN [u EXCEPT !.velocity.y = 0]
    ELSE [u EXCEPT !.velocity.y = u.velocity.y - Gravity * delta]

\* update, step 2: gravity and jumping
Vertical(u, c, delta) ==
    IF u.isGrounded
    THEN IF c.jump
         THEN [u EXCEPT !.velocity.y = JumpVelocity, !.isGrounded = FALSE]
         ELSE [u EXCEPT !.velocity.y = 0]
    ELSE [u EXCEPT !.velocity.y = u.velocity.y - Gravity * delta]

\* the unit moved to p, capsule re-synced
MovedTo(u, p) ==
    [u EXCEPT !.position = p,
              !.capStart = VAdd(Vec(0, Radius, 0), p),
              !.capEnd = VAdd(Vec(0, Height - Radius, 0), p)]

\* an integration that syncs the capsule before it moves the position
IntegrateStale(u, delta) ==
    [u EXCEPT !.position = Vec(u.position.x + RoundDiv(u.velocity.x * delta, 1000),
                               u.position.y + RoundDiv(u.velocity.y * delta, 1000),
                               u.position.z + RoundDiv(u.velocity.z * delta, 1000)),
              !.capStart = VAdd(Vec(0, Radius, 0), u.position),
              !.capEnd = VAdd(Vec(0, Height - Radius, 0), u.position)]

\* update, step 3: position += velocity * delta
Integrate(u, delta) ==
    MovedTo(u, Vec(u.position.x + RoundDiv(u.velocity.x * delta, 1000),
                   u.position.y + RoundDiv(u.velocity.y * delta, 1000),
                   u.position.z + RoundDiv(u.velocity.z * delta, 1000)))

\* a selection that looks at the speed before the grounded flag
NextAnimationSpeedFirst(u) ==
    LET sq == u.velocity.x * u.velocity.x + u.velocity.z * u.velocity.z
    IN  IF sq > RunThreshold * RunThreshold THEN "Running"
        ELSE IF ~u.isGrounded THEN "Jump"
        ELSE IF sq > WalkThreshold * WalkThreshold THEN "Walking"
        ELSE "Idle"

\* update, step 4: the clip the motion state asks for
NextAnimation(u) ==
    LET sq == u.velocity.x * u.velocity.x + u.velocity.z * u.velocity.z
    IN  IF ~u.isGrounded THEN "Jump"
        ELSE IF sq > RunThreshold * RunThreshold THEN "Running"
        ELSE IF sq > WalkThreshold * WalkThreshold THEN "Walking"
        ELSE "Idle"

\* actions is a plain object ({}): a lookup by one of these names finds the
\* member inherited from Object.prototype when no clip has that name
ObjectMembers == {"constructor", "toString", "valueOf", "hasOwnProperty"}

\* whether this.actions[name] is truthy
HasAction(u, name) == name \in u.actions \/ name \in ObjectMembers

\* testAnimation || next
ActiveAction(u, testAnimation) ==
    IF testAnimation # NoOverride THEN testAnimation ELSE NextAnimation(u)

\* the if block of step 4 is entered and this.actions[activeAction] is not a
\* clip action: .reset is not a function
SwitchThrows(u, activeAction) ==
    /\ u.currentAction # activeAction
    /\ HasAction(u, activeAction)
    /\ activeAction \notin u.actions

\* a switch that does not look the name up in the table
SwitchToUnchecked(u, activeAction) ==
    IF u.currentAction # activeAction THEN [u EXCEPT !.currentAction = activeAction] ELSE u

\* the assignment of currentAction is reached only past reset().fadeIn().play()
SwitchTo(u, activeAction) ==
    IF u.currentAction # activeAction /\ HasAction(u, activeAction)
                                      /\ ~SwitchThrows(u, activeAction)
    THEN [u EXCEPT !.currentAction = activeAction]
    ELSE u

SelectAnimation(u, testAnimation) == SwitchTo(u, ActiveAction(u, testAnimation))

\* Unit.update: the unit when update returns, or when it throws
Update(u, delta, c, j, cameraTheta, testAnimation) ==
    IF ~u.mixer THEN u
    ELSE SelectAnimation(
             Integrate(Vertical(Horizontal(u, c, j, cameraTheta), c, delta), delta),
             testAnimation)

\* Unit.update: whether it throws (step 4 reads currentAction and the table,
\* which the steps before leave alone)
UpdateThrows(u, testAnimation) ==
    u.mixer /\ SwitchThrows(u, ActiveAction(u, testAnimation))

\* a floor rule that spawns dust on every grounded check
FloorRuleAlwaysDust(u) ==
    IF u.position.y <= 0
    THEN [unit |-> [u EXCEPT !.position.y = 0, !.isGrounded = TRUE],
          dust |-> <<[u.position EXCEPT !.y = 0]>>]
    ELSE [unit |-> [u EXCEPT !.isGrounded = FALSE], dust |-> <<>>]

\* checkCollisions, floor: the unit after it and the dust callback's arguments
FloorRule(u) ==
    IF u.position.y <= 0
    THEN [unit |-> [u EXCEPT !.position.y = 0, !.isGrounded = TRUE],
          dust |-> IF ~u.isGrounded THEN <<[u.position EXCEPT !.y = 0]>> ELSE <<>>]
    ELSE [unit |-> [u EXCEPT !.isGrounded = FALSE], dust |-> <<>>]

\* a push that counts a contact from above as ground contact
PushOutLands(u, d, distance) ==
    [u EXCEPT !.position = IF distance = 0 THEN u.position
                           ELSE Vec(u.position.x + RoundDiv(d.x * (Radius - distance), distance),
                                    u.position.y + RoundDiv(d.y * (Radius - distance), distance),
                                    u.position.z + RoundDiv(d.z * (Radius - distance), distance)),
              !.velocity = ProjectOnPlane(u.velocity, d),
              !.isGrounded = u.isGrounded \/ d.y > 0]

\* position.add(normal * overlap) and velocity.projectOnPlane(normal), for the
\* offset d from the closest point and its length; a zero d moves nothing
PushOut(u, d, distance) ==
    [u EXCEPT !.position = IF distance = 0 THEN u.position
                           ELSE Vec(u.position.x + RoundDiv(d.x * (Radius - distance), distance),
                                    u.position.y + RoundDiv(d.y * (Radius - distance), distance),
                                    u.position.z + RoundDiv(d.z * (Radius - distance), distance)),
              !.velocity = ProjectOnPlane(u.velocity, d)]

\* a narrow phase that also acts within a skin of 0.01 around the radius
SeparateWithSkin(u, d) ==
    IF Dot(d, d) < (Radius + 10) * (Radius + 10) THEN PushOut(u, d, Sqrt(Dot(d, d))) ELSE u

\* the narrow phase: distance < radius
Separate(u, d) == IF Dot(d, d) < Radius * Radius THEN PushOut(u, d, Sqrt(Dot(d, d))) ELSE u

\* checkCollisions, one obstacle: broad phase, then the narrow phase on the
\* offset from the closest box point
ResolveObstacle(u, box) ==
    IF IntersectsSphere(box, u.position, Height)
    THEN Separate(u, VSub(u.position, ClampPoint(box, u.position)))
    ELSE u

\* the for loop over the obstacles, in list order
ResolveAll(u, boxes) ==
    LET step[k \in 0..Len(boxes)] ==
            IF k = 0 THEN u ELSE ResolveObstacle(step[k - 1], boxes[k])
    IN  step[Len(boxes)]

\* Unit.checkCollisions
CheckCollisions(u, boxes) ==
    LET f == FloorRule(u)
    IN  [unit |-> ResolveAll(f.unit, boxes), dust |-> f.dust]

(***************************************************************************)
(* useControls (src/hooks/useControls.ts).                                 *)
(***************************************************************************)
InitControls ==
    [forward |-> FALSE, backward |-> FALSE, left |-> FALSE, right |-> FALSE,
     jump |-> FALSE, run |-> FALSE, resetCamera |-> FALSE]

InitJoystick == [x |-> 0, y |-> 0, active |-> FALSE]

\* no device in slot 0
NoPad == [present |-> FALSE, buttons |-> 0, axisX |-> 0, axisY |-> 0, pressed |-> {}]

Pad(buttons, axisX, axisY, pressed) ==
    [present |-> TRUE, buttons |-> buttons, axisX |-> axisX, axisY |-> axisY,
     pressed |-> pressed]

\* a poll that releases every flag when it finds no device
UpdateGamepadReleases(c, gp) ==
    IF ~gp.present THEN [controls |-> InitControls, threw |-> FALSE]
    ELSE [controls |-> [c EXCEPT !.forward = gp.axisY < -GamepadThreshold,
                                 !.backward = gp.axisY > GamepadThreshold,
                                 !.left = gp.axisX < -GamepadThreshold,
                                 !.right = gp.axisX > GamepadThreshold,
                                 !.jump = 0 \in gp.pressed,
                                 !.run = RunButton \in gp.pressed,
                                 !.resetCamera = 3 \in gp.pressed],
          threw |-> gp.buttons < RunButton + 1]

\* updateGamepad: the flags after the poll, and whether it threw on a missing button
UpdateGamepad(c, gp) ==
    LET dirs == [c EXCEPT !.forward = gp.axisY < -GamepadThreshold,
                          !.backward = gp.axisY > GamepadThreshold,
                          !.left = gp.axisX < -GamepadThreshold,
                          !.right = gp.axisX > GamepadThreshold]
        jumped == [dirs EXCEPT !.jump = 0 \in gp.pressed]
    IN  IF ~gp.present THEN [controls |-> c, threw |-> FALSE]
        ELSE IF gp.buttons < 1 THEN [controls |-> dirs, threw |-> TRUE]
        ELSE IF gp.buttons < RunButton + 1 THEN [controls |-> jumped, threw |-> TRUE]
        ELSE [controls |-> [jumped EXCEPT !.run = RunButton \in gp.pressed,
                                          !.resetCamera = 3 \in gp.pressed],
              threw |-> FALSE]

(***************************************************************************)
(* GameCanvas (src/components/GameCanvas.tsx).                             *)
(***************************************************************************)
NoUrl == "none"

\* the URL a load is asked for: customModelUrl || undefined, MODEL_URL by default
AssetUrl(url) == IF url = NoUrl THEN "default" ELSE url

InitCamera ==
    [theta |-> PI, phi |-> PhiRest, distance |-> 7000, targetTheta |-> PI,
     targetPhi |-> PhiRest]

\* the three createObstacle calls: position and size
ObstacleSpecs ==
    << [pos |-> Vec(10000, 0, 10000), size |-> Vec(4000, 8000, 4000)],
       [pos |-> Vec(-15000, 0, 5000), size |-> Vec(6000, 4000, 6000)],
       [pos |-> Vec(5000, 0, -20000), size |-> Vec(10000, 2000, 2000)] >>

\* the geometry's bounding box, centred on the mesh origin
LocalBox(o) ==
    Box(Vec(-(o.size.x \div 2), -(o.size.y \div 2), -(o.size.z \div 2)),
        Vec(o.size.x \div 2, o.size.y \div 2, o.size.z \div 2))

\* the box under the mesh's world matrix: centred on pos, raised by half its height
WorldBox(o) ==
    LET c == Vec(o.pos.x, o.pos.y + o.size.y \div 2, o.pos.z)
    IN  Box(VAdd(c, LocalBox(o).min), VAdd(c, LocalBox(o).max))

\* matrixWorld is the identity until the first render
LocalBoxes == [i \in 1..Len(ObstacleSpecs) |-> LocalBox(ObstacleSpecs[i])]

WorldBoxes == [i \in 1..Len(ObstacleSpecs) |-> WorldBox(ObstacleSpecs[i])]

\* onMouseMove: the pitch target after a vertical drag of dy pixels
DragPhi(targetPhi, dy) == Clamp(targetPhi + dy * DragGain, PhiMin, PhiMax)

\* animate, camera: recenter, then approach the targets by a tenth
CameraStep(cam, c, char) ==
    LET t == IF c.resetCamera
             THEN [cam EXCEPT !.targetTheta = char.rotY + PI, !.targetPhi = PhiRest]
             ELSE cam
    IN  [t EXCEPT !.theta = Lerp(t.theta, t.targetTheta, 10),
                  !.phi = Lerp(t.phi, t.targetPhi, 10)]

NoUnit == NewUnit(NoUrl)

\* the record of a handler that called neither update nor checkCollisions
NoCall(op) ==
    [op |-> op, stepped |-> 0, updated |-> FALSE, checked |-> FALSE,
     pre |-> NoUnit, mid |-> NoUnit, dust |-> <<>>, released |-> FALSE,
     delta |-> 0, threw |-> FALSE, prevRef |-> 0, key |-> ""]

\* animate, from checkCollisions on: u1 is the character after update
Checked(us, ref, scene, c, cam2, delta, u1, r) ==
    [units |-> [us EXCEPT ![ref] = r.unit], controls |-> c,
     cameraOrbit |-> cam2, running |-> TRUE,
     last |-> [op |-> "tick", stepped |-> ref, updated |-> TRUE,
               checked |-> TRUE, pre |-> us[ref], mid |-> u1, dust |-> r.dust,
               released |-> us[ref].disposed \/ ref \notin scene,
               delta |-> delta, threw |-> FALSE, prevRef |-> 0, key |-> ""]]

\* animate, from char.update on: an exception of update leaves animate before
\* checkCollisions and before the next frame is requested
Updated(us, ref, scene, c, cam2, boxes, delta, u1) ==
    IF UpdateThrows(us[ref], testAnim)
    THEN [units |-> [us EXCEPT ![ref] = u1], controls |-> c,
          cameraOrbit |-> cam2, running |-> FALSE,
          last |-> [NoCall("tick") EXCEPT
                       !.stepped = ref, !.updated = TRUE, !.pre = us[ref], !.mid = u1,
                       !.released = us[ref].disposed \/ ref \notin scene,
                       !.delta = delta, !.threw = TRUE]]
    ELSE Checked(us, ref, scene, c, cam2, delta, u1, CheckCollisions(u1, boxes))

\* animate, the block under if (characterInstanceRef.current), cam2 the
\* orbit after the camera lerp
StepCharacter(us, ref, scene, c, cam2, boxes, delta) ==
    Updated(us, ref, scene, c, cam2, boxes, delta,
            Update(us[ref], delta, c, joystick, cam2.theta, testAnim))

\* animate after updateGamepad has returned g
Polled(us, ref, scene, cam, boxes, delta, g) ==
    IF g.threw
    THEN [units |-> us, controls |-> g.controls, cameraOrbit |-> cam,
          running |-> FALSE, last |-> [NoCall("tick") EXCEPT !.threw = TRUE]]
    ELSE IF ref = 0
    THEN [units |-> us, controls |-> g.controls, cameraOrbit |-> cam,
          running |-> TRUE, last |-> NoCall("tick")]
    ELSE StepCharacter(us, ref, scene, g.controls,
                       CameraStep(cam, g.controls, us[ref]), boxes, delta)

\* animate: one frame on the given state; boxes are the obstacles' world boxes
Animate(us, ref, scene, c, cam, boxes, delta) ==
    Polled(us, ref, scene, cam, boxes, delta, UpdateGamepad(c, gamepad))

\* handleKeyDown / handleKeyUp: the flag a key code drives ("" for any other key)
KeyFlag(code) ==
    CASE code \in {"KeyW", "ArrowUp"} -> "forward"
      [] code \in {"KeyS", "ArrowDown"} -> "backward"
      [] code \in {"KeyA", "ArrowLeft"} -> "left"
      [] code \in {"KeyD", "ArrowRight"} -> "right"
      [] code = "Space" -> "jump"
      [] code = "ShiftLeft" -> "run"
      [] code = "KeyR" -> "resetCamera"
      [] OTHER -> ""

SetFlag(c, code, value) ==
    IF KeyFlag(code) = "" THEN c ELSE [c EXCEPT ![KeyFlag(code)] = value]

(***************************************************************************)
(* State after construction: the refs of useControls and GameCanvas,       *)
(* before any effect has run.                                              *)
(***************************************************************************)
Init ==
    /\ initialized = FALSE
    /\ customModelUrl = NoUrl
    /\ units = <<>>
    /\ charRef = 0
    /\ inScene = {}
    /\ pending = {}
    /\ obstacles = <<>>
    /\ controls = InitControls
    /\ joystick = InitJoystick
    /\ gamepad = NoPad
    /\ cameraOrbit = InitCamera
    /\ isDragging = FALSE
    /\ previousMouse = [x |-> 0, y |-> 0]
    /\ testAnim = NoOverride
    /\ running = FALSE
    /\ last = NoCall("init")
    /\ prevOp = "none"
    /\ nCalls = 0
    /\ now = 0
    /\ timeouts = {}
    /\ held = {}

Urls == {NoUrl, "a.glb"}

\* Math.min(clock.getDelta(), 0.1): two frames within one reading of the clock,
\* a frame of 16 ms and a clamped hitch
Deltas == {0, 16, MaxDelta}

(***************************************************************************)
(* GameCanvas handlers.                                                    *)
(***************************************************************************)
\* first render with customModelUrl = url: the customModelUrl effect returns
\* (sceneRef is still null), the init effect builds the scene, starts the
\* default character's load when url is null, and runs the first frame
Mount(url) ==
    LET first == url = NoUrl
        us == IF first THEN <<NewUnit("default")>> ELSE <<>>
        ref == IF first THEN 1 ELSE 0
        scene == IF first THEN {1} ELSE {}
        a == Animate(us, ref, scene, controls, cameraOrbit, LocalBoxes, 0)
    IN  /\ ~initialized
        /\ initialized' = TRUE
        /\ customModelUrl' = url
        /\ units' = a.units
        /\ charRef' = ref
        /\ inScene' = scene
        /\ pending' = IF first THEN {[id |-> 1, swap |-> FALSE, prevRef |-> 0]} ELSE {}
        /\ obstacles' = IF a.running THEN WorldBoxes ELSE LocalBoxes
        /\ controls' = a.controls
        /\ cameraOrbit' = a.cameraOrbit
        /\ running' = a.running
        /\ last' = [a.last EXCEPT !.op = "mount"]
        /\ UNCHANGED <<now, timeouts, held, joystick, gamepad, isDragging, previousMouse, testAnim, prevOp, nCalls>>

\* Character.dispose (src/entities/Character is not in the sources): the spec's
\* "owned GPU/animation resources must be released"
Dispose(u) == [u EXCEPT !.disposed = TRUE]

\* the customModelUrl effect and loadChar up to its await
SetCustomModelUrl(url) ==
    LET n == Len(units) + 1
        cleaned == IF charRef # 0
                   THEN [units EXCEPT ![charRef] = Dispose(units[charRef])]
                   ELSE units
    IN  /\ initialized
        /\ url # customModelUrl
        /\ n <= MaxUnits
        /\ customModelUrl' = url
        /\ inScene' = inScene \ {charRef}
        /\ units' = Append(cleaned, [NewUnit(AssetUrl(url)) EXCEPT !.raced = pending # {}])
        /\ pending' = pending \cup {[id |-> n, swap |-> TRUE, prevRef |-> charRef]}
        /\ last' = NoCall("setUrl")
        /\ UNCHANGED <<now, timeouts, held, initialized, charRef, obstacles, controls, joystick, gamepad,
                       cameraOrbit, isDragging, previousMouse, testAnim, running, prevOp, nCalls>>

\* loadAsync resolves: the rest of load, then (loadChar) scene.add and publish
LoadResolve(t) ==
    /\ t \in pending
    /\ pending' = pending \ {t}
    /\ units' = [units EXCEPT ![t.id] = Loaded(units[t.id])]
    /\ inScene' = IF t.swap THEN inScene \cup {t.id} ELSE inScene
    /\ charRef' = IF t.swap THEN t.id ELSE charRef
    /\ last' = NoCall("loadResolve")
    /\ UNCHANGED <<now, timeouts, held, initialized, customModelUrl, obstacles, controls, joystick, gamepad,
                   cameraOrbit, isDragging, previousMouse, testAnim, running, prevOp, nCalls>>

\* loadAsync rejects: load throws at its await, loadChar's promise rejects
LoadReject(t) ==
    /\ t \in pending
    /\ pending' = pending \ {t}
    /\ last' = [NoCall("loadReject") EXCEPT !.prevRef = t.prevRef]
    /\ UNCHANGED <<now, timeouts, held, initialized, customModelUrl, units, charRef, inScene, obstacles,
                   controls, joystick, gamepad, cameraOrbit, isDragging, previousMouse,
                   testAnim, running, prevOp, nCalls>>

\* animate, called back by requestAnimationFrame
Frame(delta) ==
    LET a == Animate(units, charRef, inScene, controls, cameraOrbit, obstacles, delta)
    IN  /\ initialized
        /\ running
        /\ units' = a.units
        /\ controls' = a.controls
        /\ cameraOrbit' = a.cameraOrbit
        /\ running' = a.running
        /\ last' = a.last
        /\ UNCHANGED <<now, timeouts, held, initialized, customModelUrl, charRef, inScene, pending, obstacles,
                       joystick, gamepad, isDragging, previousMouse, testAnim, prevOp>>

Tick(delta) ==
    /\ nCalls < MaxTicks
    /\ Frame(delta)
    /\ nCalls' = nCalls + 1

\* the device in slot 0 changes: connected, disconnected, sticks or buttons moved
GamepadInput(gp) ==
    /\ gamepad # gp
    /\ gamepad' = gp
    /\ last' = NoCall("gamepad")
    /\ UNCHANGED <<now, timeouts, held, initialized, customModelUrl, units, charRef, inScene, pending,
                   obstacles, controls, joystick, cameraOrbit, isDragging,
                   previousMouse, testAnim, running, prevOp, nCalls>>

\* no device, a standard pad with the stick forward and A and Y held, and a
\* device that reports four buttons
PadSamples == {NoPad, Pad(17, 0, -1000, {0, 3}), Pad(4, 0, 0, {})}

\* Unit.update called on the published unit, outside animate
CallUpdate(delta) ==
    /\ initialized
    /\ charRef # 0
    /\ nCalls < MaxCalls
    /\ units' = [units EXCEPT ![charRef] =
                    Update(units[charRef], delta, controls, joystick, cameraOrbit.theta, testAnim)]
    /\ last' = [NoCall("update") EXCEPT !.stepped = charRef, !.updated = TRUE,
                                        !.pre = units[charRef], !.mid = units'[charRef],
                                        !.delta = delta,
                                        !.threw = UpdateThrows(units[charRef], testAnim)]
    /\ prevOp' = last.op
    /\ nCalls' = nCalls + 1
    /\ UNCHANGED <<now, timeouts, held, initialized, customModelUrl, charRef, inScene, pending, obstacles,
                   controls, joystick, gamepad, cameraOrbit, isDragging, previousMouse,
                   testAnim, running>>

\* Unit.checkCollisions called on the published unit, outside animate
CallCheckCollisions ==
    LET r == CheckCollisions(units[charRef], obstacles)
    IN  /\ initialized
        /\ charRef # 0
        /\ nCalls < MaxCalls
        /\ units' = [units EXCEPT ![charRef] = r.unit]
        /\ last' = [NoCall("checkCollisions") EXCEPT !.stepped = charRef, !.checked = TRUE,
                                                     !.pre = units[charRef],
                                                     !.mid = units[charRef], !.dust = r.dust]
        /\ prevOp' = last.op
        /\ nCalls' = nCalls + 1
        /\ UNCHANGED <<now, timeouts, held, initialized, customModelUrl, charRef, inScene, pending, obstacles,
                       controls, joystick, gamepad, cameraOrbit, isDragging, previousMouse,
                       testAnim, running>>

\* onMouseDown
MouseDown(x, y) ==
    /\ initialized
    /\ isDragging' = TRUE
    /\ previousMouse' = [x |-> x, y |-> y]
    /\ last' = NoCall("mouseDown")
    /\ UNCHANGED <<now, timeouts, held, initialized, customModelUrl, units, charRef, inScene, pending, obstacles,
                   controls, joystick, gamepad, cameraOrbit, testAnim, running, prevOp, nCalls>>

\* onMouseMove while dragging
MouseMove(x, y) ==
    /\ initialized
    /\ isDragging
    /\ cameraOrbit' = [cameraOrbit EXCEPT
                          !.targetTheta = @ - (x - previousMouse.x) * DragGain,
                          !.targetPhi = DragPhi(@, y - previousMouse.y)]
    /\ previousMouse' = [x |-> x, y |-> y]
    /\ last' = NoCall("mouseMove")
    /\ UNCHANGED <<now, timeouts, held, initialized, customModelUrl, units, charRef, inScene, pending, obstacles,
                   controls, joystick, gamepad, isDragging, testAnim, running, prevOp, nCalls>>

\* onMouseUp
MouseUp ==
    /\ initialized
    /\ isDragging' = FALSE
    /\ last' = NoCall("mouseUp")
    /\ UNCHANGED <<now, timeouts, held, initialized, customModelUrl, units, charRef, inScene, pending, obstacles,
                   controls, joystick, gamepad, cameraOrbit, previousMouse, testAnim,
                   running, prevOp, nCalls>>

\* handleKeyDown
KeyDown(code) ==
    /\ initialized
    /\ controls' = SetFlag(controls, code, TRUE)
    /\ last' = [NoCall("keyDown") EXCEPT !.key = code]
    /\ UNCHANGED <<now, timeouts, initialized, customModelUrl, units, charRef, inScene, pending, obstacles,
                   joystick, gamepad, cameraOrbit, isDragging, previousMouse, testAnim,
                   running, prevOp, nCalls>>

\* handleKeyUp
KeyUp(code) ==
    /\ initialized
    /\ controls' = SetFlag(controls, code, FALSE)
    /\ last' = [NoCall("keyUp") EXCEPT !.key = code]
    /\ UNCHANGED <<now, timeouts, initialized, customModelUrl, units, charRef, inScene, pending, obstacles,
                   joystick, gamepad, cameraOrbit, isDragging, previousMouse, testAnim,
                   running, prevOp, nCalls>>

\* animate, in the runs that follow the camera
CameraFrame(delta) ==
    /\ nCalls < MaxFrames
    /\ Frame(delta)
    /\ nCalls' = nCalls + 1

Next ==
    \/ \E url \in Urls : Mount(url)
    \/ \E url \in Urls : SetCustomModelUrl(url)
    \/ \E t \in pending : LoadResolve(t)
    \/ \E t \in pending : LoadReject(t)
    \/ \E delta \in Deltas : Tick(delta)
    \/ \E gp \in PadSamples : GamepadInput(gp)

Spec == Init /\ [][Next]_vars

(***************************************************************************)
(* The unit on its own: a mounted scene whose published unit is in one of  *)
(* the states update and checkCollisions are entered in, stepped by direct *)
(* calls and by frames.                                                    *)
(***************************************************************************)
\* a unit of the default asset at p with velocity v
UnitAt(p, v, grounded, loaded) ==
    [MovedTo(NewUnit("default"), p) EXCEPT
        !.velocity = v, !.isGrounded = grounded, !.mixer = loaded,
        !.actions = IF loaded THEN Clips("default") ELSE {}]

\* around the third obstacle (x 0..10, y 0..2, z -21..-19): the spawn point, in
\* the air, 0.4 from a face, from a corner and from the top edge, 0.424 from a
\* corner, 1.0 from a face, inside the box, 0.4 from the foot of a face from
\* below the floor, and a radius from the face just above the floor (from where
\* an update of 0.1 s at velocity (0, 0.2, -2.118) ends at the point before)
Positions ==
    { Vec(0, 0, 0), Vec(0, 180, 0), Vec(5000, 0, -18600), Vec(10240, 0, -18680),
      Vec(5000, 2320, -18760), Vec(10300, 0, -18700), Vec(5000, 0, -18000),
      Vec(5000, 1000, -20000), Vec(5000, -240, -18680), Vec(5000, 60, -18500) }

Velocities ==
    { Vec(0, 0, 0), Vec(0, -12600, 0), Vec(-3000, 0, -4000), Vec(2000, 1000, -5000),
      Vec(0, 200, -2118) }

\* isGrounded is only ever set with position.y = 0; a unit that has not loaded
\* has never moved
UnitSamples ==
    { UnitAt(p, v, g, TRUE) : <<p, v, g>> \in
        { t \in Positions \X Velocities \X BOOLEAN : t[3] => t[1].y = 0 } }
    \cup { UnitAt(Zero3, Zero3, g, FALSE) : g \in BOOLEAN }

ControlSamples ==
    { InitControls,
      [InitControls EXCEPT !.jump = TRUE],
      [InitControls EXCEPT !.jump = TRUE, !.forward = TRUE],
      [InitControls EXCEPT !.jump = TRUE, !.run = TRUE, !.left = TRUE, !.forward = TRUE],
      [InitControls EXCEPT !.backward = TRUE, !.right = TRUE],
      [InitControls EXCEPT !.jump = TRUE, !.backward = TRUE, !.run = TRUE] }

JoystickSamples == { InitJoystick, [x |-> 600, y |-> -800, active |-> TRUE] }

InitUnit ==
    /\ initialized = TRUE
    /\ customModelUrl = NoUrl
    /\ \E u \in UnitSamples :
          /\ units = <<u>>
          /\ pending = IF u.mixer THEN {} ELSE {[id |-> 1, swap |-> FALSE, prevRef |-> 0]}
    /\ charRef = 1
    /\ inScene = {1}
    /\ obstacles = WorldBoxes
    /\ controls \in ControlSamples
    /\ joystick \in JoystickSamples
    /\ gamepad = NoPad
    /\ cameraOrbit = InitCamera
    /\ isDragging = FALSE
    /\ previousMouse = [x |-> 0, y |-> 0]
    /\ testAnim = NoOverride
    /\ running = TRUE
    /\ last = NoCall("init")
    /\ prevOp = "none"
    /\ nCalls = 0
    /\ now = 0
    /\ timeouts = {}
    /\ held = {}

NextUnit ==
    \/ \E delta \in Deltas : CallUpdate(delta)
    \/ CallCheckCollisions
    \/ \E delta \in Deltas : Tick(delta)

SpecUnit == InitUnit /\ [][NextUnit]_vars

(***************************************************************************)
(* The camera: the scene after the default character has loaded, driven by *)
(* the pointer, the recenter key and frames.                               *)
(***************************************************************************)
\* the default character after the first frame and its load
StandingUnit == Loaded(CheckCollisions(NewUnit("default"), LocalBoxes).unit)

InitCamera2 ==
    /\ initialized = TRUE
    /\ customModelUrl = NoUrl
    /\ units = <<StandingUnit>>
    /\ charRef = 1
    /\ inScene = {1}
    /\ pending = {}
    /\ obstacles = WorldBoxes
    /\ controls = InitControls
    /\ joystick = InitJoystick
    /\ gamepad = NoPad
    /\ cameraOrbit = InitCamera
    /\ isDragging = FALSE
    /\ previousMouse = [x |-> 0, y |-> 0]
    /\ testAnim = NoOverride
    /\ running = TRUE
    /\ last = NoCall("loadResolve")
    /\ prevOp = "none"
    /\ nCalls = 0
    /\ now = 0
    /\ timeouts = {}
    /\ held = {}

\* clientX and clientY of the pointer events
PointerXs == {0}

PointerYs == {0, 100, 500}

CameraKeys == {"KeyR"}

\* the frames of a steady display
CameraDeltas == {16}

NextCamera ==
    \/ \E x \in PointerXs, y \in PointerYs : MouseDown(x, y)
    \/ \E x \in PointerXs, y \in PointerYs : MouseMove(x, y)
    \/ MouseUp
    \/ \E code \in CameraKeys : KeyDown(code) /\ UNCHANGED held
    \/ \E code \in CameraKeys : KeyUp(code) /\ UNCHANGED held
    \/ \E delta \in CameraDeltas : CameraFrame(delta)

SpecCamera == InitCamera2 /\ [][NextCamera]_vars

(***************************************************************************)
(* update on its own: the published unit in the states update is entered   *)
(* in (any heading, speeds around the animation thresholds, on the floor   *)
(* or in the air), with the inputs update is passed.                       *)
(***************************************************************************)
\* rotation.y is never wrapped: it accumulates 0.15 of each wrapped difference
HeadingSamples == {0, 1000, PI, -2 * PI}

\* horizontal speeds that an update without input turns into 0.4998, 0.6,
\* 6.99975 and 7.004; vertical speeds of a rise and of a fall
VelocitySamples ==
    { Vec(0, 0, 0), Vec(588, 0, 0), Vec(0, 5000, 706), Vec(8235, -12600, 0),
      Vec(8240, 0, 0) }

\* a unit on the floor at the spawn point, or 5.0 above it
UpdateSamples ==
    { [UnitAt(IF g THEN Zero3 ELSE Vec(0, 5000, 0), v, g, TRUE) EXCEPT !.rotY = r] :
        <<v, g, r>> \in VelocitySamples \X BOOLEAN \X HeadingSamples }
    \cup { UnitAt(Zero3, Zero3, FALSE, FALSE) }

\* the stick at rest, pushed, pushed within the dead zone, and released with
\* its last values left in joystickState
StickSamples ==
    { InitJoystick, [x |-> 600, y |-> -800, active |-> TRUE],
      [x |-> 30, y |-> 0, active |-> TRUE], [x |-> 600, y |-> -800, active |-> FALSE] }

\* testAnimation: none, a clip of the default asset, a clip of another asset,
\* and a name that is a property of every object
OverrideSamples == {NoOverride, "Dance", "Wave", "constructor"}

InitUpdate ==
    /\ initialized = TRUE
    /\ customModelUrl = NoUrl
    /\ \E u \in UpdateSamples :
          /\ units = <<u>>
          /\ pending = IF u.mixer THEN {} ELSE {[id |-> 1, swap |-> FALSE, prevRef |-> 0]}
    /\ charRef = 1
    /\ inScene = {1}
    /\ obstacles = WorldBoxes
    /\ controls \in ControlSamples
    /\ joystick \in StickSamples
    /\ gamepad = NoPad
    /\ cameraOrbit = InitCamera
    /\ isDragging = FALSE
    /\ previousMouse = [x |-> 0, y |-> 0]
    /\ testAnim \in OverrideSamples
    /\ running = TRUE
    /\ last = NoCall("init")
    /\ prevOp = "none"
    /\ nCalls = 0
    /\ now = 0
    /\ timeouts = {}
    /\ held = {}

NextUpdate == \E delta \in Deltas : CallUpdate(delta)

SpecUpdate == InitUpdate /\ [][NextUpdate]_vars

\* the same states, stepped by update and checkCollisions in any order
NextAnim ==
    \/ \E delta \in Deltas : CallUpdate(delta)
    \/ CallCheckCollisions

SpecAnim == InitUpdate /\ [][NextAnim]_vars

(***************************************************************************)
(* The walk: the loaded character standing at the spawn point, any         *)
(* heading, forward held, the camera behind it at theta = 0, stepped by    *)
(* frames of 16 ms.                                                        *)
(***************************************************************************)
InitWalk ==
    /\ initialized = TRUE
    /\ customModelUrl = NoUrl
    /\ \E r \in HeadingSamples : units = <<[StandingUnit EXCEPT !.rotY = r]>>
    /\ charRef = 1
    /\ inScene = {1}
    /\ pending = {}
    /\ obstacles = WorldBoxes
    /\ controls = [InitControls EXCEPT !.forward = TRUE]
    /\ joystick = InitJoystick
    /\ gamepad = NoPad
    /\ cameraOrbit = [InitCamera EXCEPT !.theta = 0, !.targetTheta = 0]
    /\ isDragging = FALSE
    /\ previousMouse = [x |-> 0, y |-> 0]
    /\ testAnim = NoOverride
    /\ running = TRUE
    /\ last = NoCall("loadResolve")
    /\ prevOp = "none"
    /\ nCalls = 0
    /\ now = 0
    /\ timeouts = {}
    /\ held = {}

\* animate, in the walk
WalkFrame(delta) ==
    /\ nCalls < MaxSteps
    /\ Frame(delta)
    /\ nCalls' = nCalls + 1

NextWalk == \E delta \in CameraDeltas : WalkFrame(delta)

SpecWalk == InitWalk /\ [][NextWalk]_vars

(***************************************************************************)
(* The gamepad: the scene with the loaded character, flags as the keyboard *)
(* has left them, a device that comes, changes and goes, and frames.       *)
(***************************************************************************)
InitPad ==
    /\ initialized = TRUE
    /\ customModelUrl = NoUrl
    /\ units = <<StandingUnit>>
    /\ charRef = 1
    /\ inScene = {1}
    /\ pending = {}
    /\ obstacles = WorldBoxes
    /\ controls \in ControlSamples
    /\ joystick = InitJoystick
    /\ gamepad = NoPad
    /\ cameraOrbit = InitCamera
    /\ isDragging = FALSE
    /\ previousMouse = [x |-> 0, y |-> 0]
    /\ testAnim = NoOverride
    /\ running = TRUE
    /\ last = NoCall("loadResolve")
    /\ prevOp = "none"
    /\ nCalls = 0
    /\ now = 0
    /\ timeouts = {}
    /\ held = {}

NextPad ==
    \/ \E gp \in PadSamples : GamepadInput(gp)
    \/ \E delta \in Deltas : Tick(delta)

SpecPad == InitPad /\ [][NextPad]_vars

(***************************************************************************)
(* The keyboard: the mounted scene and key events of the keys the switch   *)
(* statements name, of the right Shift key and of a key they do not name.  *)
(***************************************************************************)
\* KeyboardEvent.code
KeyCodes ==
    { "KeyW", "ArrowUp", "KeyS", "ArrowDown", "KeyA", "ArrowLeft", "KeyD", "ArrowRight",
      "Space", "ShiftLeft", "ShiftRight", "KeyR", "KeyQ" }

NextKeys ==
    \/ \E code \in KeyCodes : KeyDown(code) /\ UNCHANGED held
    \/ \E code \in KeyCodes : KeyUp(code) /\ UNCHANGED held

SpecKeys == InitCamera2 /\ [][NextKeys]_vars

(***************************************************************************)
(* The on-screen buttons (App): presses of the jump and recenter buttons,  *)
(* the timers they start, and the passage of time.                         *)
(***************************************************************************)
\* handleJumpPress / handleRecenterPress: set the flag, start a timer
Press(flag, op) ==
    /\ initialized
    /\ controls' = [controls EXCEPT ![flag] = TRUE]
    /\ timeouts' = timeouts \cup {[flag |-> flag, due |-> now + PulseMs]}
    /\ last' = NoCall(op)
    /\ UNCHANGED <<held, initialized, customModelUrl, units, charRef, inScene, pending, obstacles,
                   joystick, gamepad, cameraOrbit, isDragging, previousMouse, testAnim,
                   running, prevOp, nCalls, now>>

JumpPress == Press("jump", "jumpPress")

RecenterPress == Press("resetCamera", "recenterPress")

\* the callback of a timer that is due: clear the flag
Timeout(t) ==
    /\ t \in timeouts
    /\ t.due <= now
    /\ controls' = [controls EXCEPT ![t.flag] = FALSE]
    /\ timeouts' = timeouts \ {t}
    /\ last' = [NoCall("timeout") EXCEPT !.key = t.flag]
    /\ UNCHANGED <<held, initialized, customModelUrl, units, charRef, inScene, pending, obstacles,
                   joystick, gamepad, cameraOrbit, isDragging, previousMouse, testAnim,
                   running, prevOp, nCalls, now>>

\* ms milliseconds pass; a timer fires when it is due, before more time passes
Elapse(ms) ==
    /\ now + ms <= MaxTime
    /\ \A t \in timeouts : now + ms <= t.due
    /\ now' = now + ms
    /\ last' = NoCall("elapse")
    /\ UNCHANGED <<held, initialized, customModelUrl, units, charRef, inScene, pending, obstacles,
                   controls, joystick, gamepad, cameraOrbit, isDragging, previousMouse,
                   testAnim, running, prevOp, nCalls, timeouts>>

\* the time between two events
Pauses == {50}

NextTouch ==
    \/ JumpPress
    \/ RecenterPress
    \/ \E t \in timeouts : Timeout(t)
    \/ \E ms \in Pauses : Elapse(ms)

SpecTouch == InitCamera2 /\ [][NextTouch]_vars

(***************************************************************************)
(* A dash past the third obstacle: the loaded character stands at rest at  *)
(* the spawn point, the camera is where it starts (theta = pi), and frames *)
(* come ten a second (the clamped delta).  S and Shift go down before the  *)
(* first frame; A, D and Space go down and up near the obstacle.           *)
(***************************************************************************)
\* the frames before which a key may go down
DownAt(code) ==
    CASE code \in {"KeyS", "ShiftLeft"} -> {0}
      [] code \in {"KeyA", "KeyD"} -> {17, 18, 19}
      [] code = "Space" -> {19, 20, 21}
      [] OTHER -> {}

DashKeys == {"KeyS", "ShiftLeft", "KeyA", "KeyD", "Space"}

InitDash ==
    /\ initialized = TRUE
    /\ customModelUrl = NoUrl
    /\ units = <<StandingUnit>>
    /\ charRef = 1
    /\ inScene = {1}
    /\ pending = {}
    /\ obstacles = WorldBoxes
    /\ controls = InitControls
    /\ joystick = InitJoystick
    /\ gamepad = NoPad
    /\ cameraOrbit = InitCamera
    /\ isDragging = FALSE
    /\ previousMouse = [x |-> 0, y |-> 0]
    /\ testAnim = NoOverride
    /\ running = TRUE
    /\ last = NoCall("loadResolve")
    /\ prevOp = "none"
    /\ nCalls = 0
    /\ now = 0
    /\ timeouts = {}
    /\ held = {}

\* handleKeyDown, for a key that is up
DashKeyDown(code) ==
    /\ nCalls \in DownAt(code)
    /\ ~controls[KeyFlag(code)]
    /\ KeyDown(code)
    /\ UNCHANGED held

\* handleKeyUp, for A, D or Space held through a frame
DashKeyUp(code) ==
    /\ code \in {"KeyA", "KeyD", "Space"}
    /\ controls[KeyFlag(code)]
    /\ last.op = "tick"
    /\ KeyUp(code)
    /\ UNCHANGED held

\* animate, in the dash
DashFrame(delta) ==
    /\ nCalls < MaxDash
    /\ Frame(delta)
    /\ nCalls' = nCalls + 1

NextDash ==
    \/ \E code \in DashKeys : DashKeyDown(code)
    \/ \E code \in DashKeys : DashKeyUp(code)
    \/ DashFrame(MaxDelta)

SpecDash == InitDash /\ [][NextDash]_vars

(***************************************************************************)
(* The keyboard: a key that is up goes down and a key that is down goes up *)
(* (no auto-repeat), each change delivered to its handler; no gamepad.     *)
(***************************************************************************)
DirectionCodes ==
    { "KeyW", "ArrowUp", "KeyS", "ArrowDown", "KeyA", "ArrowLeft", "KeyD", "ArrowRight" }

\* keydown of a key that was up
PressKey(code) ==
    /\ code \notin held
    /\ KeyDown(code)
    /\ held' = held \cup {code}

\* keyup of a key that was down
ReleaseKey(code) ==
    /\ code \in held
    /\ KeyUp(code)
    /\ held' = held \ {code}

NextHeld ==
    \/ \E code \in DirectionCodes : PressKey(code)
    \/ \E code \in DirectionCodes : ReleaseKey(code)

SpecHeld == InitCamera2 /\ [][NextHeld]_vars

(***************************************************************************)
(* The canvas where every load succeeds: loadAsync resolves for each       *)
(* pending load (weak fairness), and none rejects.                         *)
(***************************************************************************)
NextLoad ==
    \/ \E url \in Urls : Mount(url)
    \/ \E url \in Urls : SetCustomModelUrl(url)
    \/ \E t \in pending : LoadResolve(t)
    \/ \E delta \in Deltas : Tick(delta)

SpecLoad ==
    /\ Init
    /\ [][NextLoad]_vars
    /\ WF_vars(\E t \in pending : LoadResolve(t))

(***************************************************************************)
(* Unit.checkCollisions on obstacle lists other than the scene's: the      *)
(* scene's three boxes, its third box alone, and a box of the third one's  *)
(* size that createObstacle places 0.3 above the floor.                    *)
(***************************************************************************)
Ledge == [pos |-> Vec(5000, 300, -20000), size |-> Vec(10000, 2000, 2000)]

ObstacleLists == { WorldBoxes, <<WorldBox(ObstacleSpecs[3])>>, <<WorldBox(Ledge)>> }

InitBoxes ==
    /\ initialized = TRUE
    /\ customModelUrl = NoUrl
    /\ \E u \in UnitSamples :
          /\ units = <<u>>
          /\ pending = IF u.mixer THEN {} ELSE {[id |-> 1, swap |-> FALSE, prevRef |-> 0]}
    /\ charRef = 1
    /\ inScene = {1}
    /\ obstacles \in ObstacleLists
    /\ controls = InitControls
    /\ joystick = InitJoystick
    /\ gamepad = NoPad
    /\ cameraOrbit = InitCamera
    /\ isDragging = FALSE
    /\ previousMouse = [x |-> 0, y |-> 0]
    /\ testAnim = NoOverride
    /\ running = TRUE
    /\ last = NoCall("init")
    /\ prevOp = "none"
    /\ nCalls = 0
    /\ now = 0
    /\ timeouts = {}
    /\ held = {}

NextBoxes == CallCheckCollisions

SpecBoxes == InitBoxes /\ [][NextBoxes]_vars

(***************************************************************************)
(* Properties.                                                             *)
(***************************************************************************)
\* the offset of the unit from the closest point of a box
Offset(u, box) == VSub(u.position, ClampPoint(box, u.position))

\* not below the floor and at least a radius away from every obstacle
Resolved(u) ==
    /\ u.position.y >= 0
    /\ \A k \in 1..Len(obstacles) :
          Dot(Offset(u, obstacles[k]), Offset(u, obstacles[k])) >= Radius * Radius

OnlyLoadedStepped == last.stepped # 0 => last.pre.mixer

\* C4: the frame loop never steps a unit that has been removed from the scene
\* and disposed
NeverStepReleased == last.stepped # 0 => ~last.released

\* C5: once a load that was requested while another was in flight has
\* completed and no load is in flight, its unit is the published one and the
\* only character in the scene
SupersededDiscarded ==
    (units # <<>> /\ pending = {} /\ units[Len(units)].raced /\ units[Len(units)].mixer)
        => (charRef = Len(units) /\ inScene = {Len(units)})

\* C6: after a failed load the character is what it was before the request:
\* none if there was none, otherwise the previous one, in the scene and not disposed
FailureKeepsCharacter ==
    last.op = "loadReject" =>
        /\ charRef = last.prevRef
        /\ charRef # 0 => (charRef \in inScene /\ ~units[charRef].disposed)

\* C7: every frame schedules the next one
TickSchedulesNext == (initialized /\ last.op \in {"mount", "tick"}) => running

\* C8: targetPhi and phi stay within [-0.2, 1.3]
PitchClamped ==
    /\ PhiMin <= cameraOrbit.targetPhi /\ cameraOrbit.targetPhi <= PhiMax
    /\ PhiMin <= cameraOrbit.phi /\ cameraOrbit.phi <= PhiMax

\* a frame has run during a drag that went past the upper bound
PitchClampedWitness ==
    /\ last.op = "tick" /\ isDragging /\ previousMouse.y = 500
    /\ cameraOrbit.targetPhi = PhiMax
    /\ cameraOrbit.phi > PhiRest

\* C9: a checkCollisions call that directly follows another and is entered on
\* a resolved position leaves position and velocity as they are and spawns no dust
SecondCheckIdle ==
    (prevOp = "checkCollisions" /\ last.op = "checkCollisions" /\ Resolved(last.pre))
        => /\ units[last.stepped].position = last.pre.position
           /\ units[last.stepped].velocity = last.pre.velocity
           /\ last.dust = <<>>

\* the second call was entered where the first had pushed the unit: a radius
\* from the face of the third obstacle
SecondCheckIdleWitness ==
    /\ prevOp = "checkCollisions" /\ last.op = "checkCollisions"
    /\ Resolved(last.pre)
    /\ last.pre.position = Vec(5000, 0, -18500)
    /\ units[last.stepped] = last.pre

\* |d.x| + |d.y| + |d.z|
Norm1(d) == Abs(d.x) + Abs(d.y) + Abs(d.z)

\* the scenario's outcome for the offset d of length 0.4: a move of a quarter
\* of d, no velocity along d, and a velocity change parallel to d; the velocity
\* is held to half a unit of the model's resolution (0.001 per second) in each
\* component
PushedTenth(pre, post, d) ==
    /\ Vec(4 * (post.position.x - pre.position.x), 4 * (post.position.y - pre.position.y),
           4 * (post.position.z - pre.position.z)) = d
    /\ 2 * Abs(Dot(post.velocity, d)) <= Norm1(d)
    /\ 2 * Abs(Cross(VSub(pre.velocity, post.velocity), d).x) <= Norm1(d)
    /\ 2 * Abs(Cross(VSub(pre.velocity, post.velocity), d).y) <= Norm1(d)
    /\ 2 * Abs(Cross(VSub(pre.velocity, post.velocity), d).z) <= Norm1(d)

\* C10, as amended: a unit that is not below the floor and is radius - 0.1
\* outside an obstacle box is moved by one checkCollisions call exactly 0.1 along
\* the outward normal, its velocity along the normal zeroed, the rest unchanged
PushOutTenth ==
    \A k \in 1..Len(obstacles) :
        (/\ last.op = "checkCollisions"
         /\ last.pre.position.y >= 0
         /\ Dot(Offset(last.pre, obstacles[k]), Offset(last.pre, obstacles[k]))
              = (Radius - 100) * (Radius - 100))
        => PushedTenth(last.pre, units[last.stepped], Offset(last.pre, obstacles[k]))

\* the call was entered 0.4 from a corner of the third obstacle with a velocity
\* that has components along and across the normal
PushOutTenthWitness ==
    /\ last.op = "checkCollisions"
    /\ last.pre.position = Vec(10240, 0, -18680)
    /\ last.pre.velocity = Vec(2000, 1000, -5000)
    /\ units[last.stepped].position = Vec(10300, 0, -18600)

\* C10 as stated: every unit radius - 0.1 outside an obstacle box, below the
\* floor or not
PushOutTenthAnyHeight ==
    \A k \in 1..Len(obstacles) :
        (/\ last.op = "checkCollisions"
         /\ Dot(Offset(last.pre, obstacles[k]), Offset(last.pre, obstacles[k]))
              = (Radius - 100) * (Radius - 100))
        => PushedTenth(last.pre, units[last.stepped], Offset(last.pre, obstacles[k]))

\* the yaw that faces along the move direction
TargetYaw(moveDir) == Atan2(moveDir.x, moveDir.z)

\* target yaw minus heading, before any wrapping, of the last update call
RawYaw == TargetYaw(MoveDir(MoveIntent(controls, joystick), cameraOrbit.theta)) - last.pre.rotY

\* the last handler was an update of a loaded unit with move intent above the
\* dead zone
Steered ==
    /\ last.op = "update" /\ last.pre.mixer
    /\ InputMag(MoveIntent(controls, joystick)) > DeadZone

\* the heading change update makes on u under the current inputs
TurnOf(u) == Horizontal(u, controls, joystick, cameraOrbit.theta).rotY - u.rotY

\* w is raw modulo a full turn, within [lo, pi], and the heading moved by 0.15 w
TurnIs(raw, w, lo, pre, post) ==
    /\ (w - raw) % (2 * PI) = 0
    /\ lo <= w /\ w <= PI
    /\ post.rotY = pre.rotY + RoundDiv(15 * w, 100)

SpeedSq(u) == u.velocity.x * u.velocity.x + u.velocity.z * u.velocity.z

\* velMag: the horizontal speed
Speed(u) == Sqrt(SpeedSq(u))

\* s is within 5% of the walking speed
NearWalkSpeed(s) == 95 * WalkSpeed <= 100 * s /\ 100 * s <= 105 * WalkSpeed

\* C13: from rest at the origin with forward held, run off, the joystick
\* inactive, camera theta = 0 and delta = 0.016, at no tick is the animation
\* Running or the horizontal speed above 7.0, and after 60 ticks the speed is
\* within 5% of 6.0 and the animation is Walking
WalkSettles ==
    /\ units[charRef].currentAction # "Running"
    /\ SpeedSq(units[charRef]) <= RunThreshold * RunThreshold
    /\ nCalls >= 60 =>
          /\ units[charRef].currentAction = "Walking"
          /\ NearWalkSpeed(Speed(units[charRef]))

\* sixty frames have run, the unit has walked more than 5 units down the z
\* axis and is in the Walking clip
WalkSettlesWitness ==
    /\ nCalls = 60 /\ last.op = "tick" /\ last.delta = 16
    /\ units[charRef].currentAction = "Walking"
    /\ units[charRef].isGrounded
    /\ units[charRef].position.z < -5000

\* the last handler was an update of a loaded unit
UpdatedLoaded == last.op = "update" /\ last.pre.mixer

\* C14: after an update of a loaded unit with no override and with Idle,
\* Walking, Running and Jump in the table, currentAnimation is Jump if the unit
\* is not grounded, otherwise Running if the horizontal speed is above 7.0,
\* otherwise Walking if it is above 0.5, otherwise Idle
AnimationPriority ==
    (/\ UpdatedLoaded /\ testAnim = NoOverride
     /\ {"Idle", "Walking", "Running", "Jump"} \subseteq last.pre.actions)
    => last.mid.currentAction =
          (IF ~last.mid.isGrounded THEN "Jump"
           ELSE IF SpeedSq(last.mid) > RunThreshold * RunThreshold THEN "Running"
           ELSE IF SpeedSq(last.mid) > WalkThreshold * WalkThreshold THEN "Walking"
           ELSE "Idle")

\* an update without override left a unit in the air at a speed above 7.0 and
\* took it from Idle to Jump
AnimationPriorityWitness ==
    /\ UpdatedLoaded /\ testAnim = NoOverride
    /\ last.pre.currentAction = "Idle"
    /\ ~last.mid.isGrounded
    /\ SpeedSq(last.mid) > RunThreshold * RunThreshold
    /\ last.mid.currentAction = "Jump"

\* C15: an override that names a clip of the table makes currentAnimation that
\* clip after update, whatever the grounded state and the speed are; an
\* override that names no clip of the table is silently ignored: update raises
\* no error and never sets currentAnimation to that name
OverrideApplied ==
    (UpdatedLoaded /\ testAnim # NoOverride) =>
        IF testAnim \in last.pre.actions
        THEN ~last.threw /\ last.mid.currentAction = testAnim
        ELSE ~last.threw /\ last.mid.currentAction # testAnim

\* 1 for a set flag, 0 for a clear one
Flag(b) == IF b THEN 1000 ELSE 0

\* heading and horizontal velocity of post are those of s
SteeredAs(post, s) ==
    /\ post.rotY = s.rotY
    /\ post.velocity.x = s.velocity.x
    /\ post.velocity.z = s.velocity.z

\* update has steered pre to post by the intent m at the speed the run flag selects
SteeredBy(pre, post, m) ==
    SteeredAs(post, Steer(pre, IF controls.run THEN RunSpeed ELSE WalkSpeed,
                          InputMag(m), MoveDir(m, cameraOrbit.theta)))

\* C16: in update an active joystick makes the move intent (joystick.x,
\* -joystick.y) whatever the four direction flags are; an inactive joystick is
\* ignored and the intent comes from the direction flags only; jump and run are
\* read from the control flags in both cases
JoystickOverrides ==
    UpdatedLoaded =>
        /\ joystick.active =>
              SteeredBy(last.pre, last.mid, [x |-> joystick.x, z |-> -joystick.y])
        /\ ~joystick.active =>
              SteeredBy(last.pre, last.mid,
                        [x |-> Flag(controls.right) - Flag(controls.left),
                         z |-> Flag(controls.forward) - Flag(controls.backward)])
        /\ (last.pre.isGrounded /\ controls.jump) => last.mid.velocity.y = JumpVelocity

\* a unit at rest on the floor was updated with the stick pushed right and
\* forward while left, forward, run and jump were held: it jumped and, with the
\* camera at theta = pi, moves towards -x at the boosted speed
JoystickOverridesWitness ==
    /\ UpdatedLoaded /\ joystick.active /\ joystick.x = 600 /\ joystick.y = -800
    /\ controls.left /\ controls.forward /\ controls.run /\ controls.jump
    /\ last.pre.isGrounded /\ last.pre.velocity = Zero3
    /\ last.mid.velocity = Vec(-1080, JumpVelocity, 1440)

\* the step is a frame: animate has polled the gamepad
Polls == last'.op \in {"mount", "tick"}

\* C17: with no gamepad present, the poll raises no error and leaves all seven
\* control flags as they are
NoPadNoOp ==
    [][(gamepad = NoPad /\ Polls) => (~last'.threw /\ controls' = controls)]_vars

\* a frame has polled with no device in the slot while forward, jump and
\* resetCamera were set, and they still are
NoPadNoOpWitness ==
    /\ gamepad = NoPad /\ last.op = "tick" /\ ~last.threw /\ running
    /\ controls.forward /\ controls.jump /\ controls.resetCamera

\* the flags the stated mapping gives for the device gp
PadFlags(gp) ==
    [forward |-> gp.axisY < -GamepadThreshold, backward |-> gp.axisY > GamepadThreshold,
     left |-> gp.axisX < -GamepadThreshold, right |-> gp.axisX > GamepadThreshold,
     jump |-> 0 \in gp.pressed, run |-> RunButton \in gp.pressed,
     resetCamera |-> 3 \in gp.pressed]

\* C18: with a gamepad present, one poll sets the four direction flags from
\* the axes against the 0.15 threshold, jump, run and resetCamera from buttons
\* 0, 10 and 3, overwriting whatever the flags held before
PadMapped == [][(gamepad.present /\ Polls) => controls' = PadFlags(gamepad)]_vars

\* the flag the stated mapping gives a key ("" for a key it does not name)
StatedFlag(code) ==
    CASE code \in {"KeyW", "ArrowUp"} -> "forward"
      [] code \in {"KeyS", "ArrowDown"} -> "backward"
      [] code \in {"KeyA", "ArrowLeft"} -> "left"
      [] code \in {"KeyD", "ArrowRight"} -> "right"
      [] code = "Space" -> "jump"
      [] code \in {"ShiftLeft", "ShiftRight"} -> "run"
      [] code = "KeyR" -> "resetCamera"
      [] OTHER -> ""

\* the flags after a key event that sets the key's flag to value
Keyed(c, flag, value) == IF flag = "" THEN c ELSE [c EXCEPT ![flag] = value]

\* C19: a key-down of W or Up, S or Down, A or Left, D or Right, Space, Shift,
\* R sets forward, backward, left, right, jump, run, resetCamera to true, a
\* key-up of the same key sets it to false, and no other key changes any flag
KeysMapped ==
    [][last'.op \in {"keyDown", "keyUp"} =>
          controls' = Keyed(controls, StatedFlag(last'.key), last'.op = "keyDown")]_vars

\* C20: every on-screen jump or recenter press sets its flag, and the flag set
\* by a press is cleared 100 ms after that press and not earlier, for any
\* sequence of presses: while a press is less than 100 ms old its flag is set,
\* and the timer of a press leaves the flag cleared
PulseLasts ==
    /\ \A t \in timeouts : now < t.due => controls[t.flag]
    /\ last.op = "jumpPress" => controls.jump
    /\ last.op = "recenterPress" => controls.resetCamera
    /\ last.op = "timeout" => ~controls[last.key]

\* C21: after every checkCollisions call isGrounded is true exactly when
\* position.y was <= 0 on entry, and then position.y is 0; contact with an
\* obstacle, also from above, never sets isGrounded
GroundedIffFloor ==
    last.checked =>
        /\ units[last.stepped].isGrounded <=> last.mid.position.y <= 0
        /\ last.mid.position.y <= 0 => units[last.stepped].position.y = 0

\* the call was entered in the air over the top edge of the third obstacle,
\* has pushed the unit up and away from the edge and left it not grounded
GroundedIffFloorWitness ==
    /\ last.op = "checkCollisions"
    /\ last.pre.position = Vec(5000, 2320, -18760)
    /\ units[last.stepped].position.y > 2320
    /\ units[last.stepped].position.z > -18760
    /\ ~units[last.stepped].isGrounded

\* C22: after every update call on a loaded unit the capsule start is
\* position + (0, 0.5, 0) and the capsule end is position + (0, 1.1, 0), where
\* position is the one this update has integrated: the position on entry plus
\* the new velocity times delta
CapsuleSynced ==
    UpdatedLoaded =>
        LET u == units[last.stepped]
        IN  /\ Radius = 500 /\ Height = 1600
            /\ u.position = Vec(last.pre.position.x + RoundDiv(u.velocity.x * last.delta, 1000),
                                last.pre.position.y + RoundDiv(u.velocity.y * last.delta, 1000),
                                last.pre.position.z + RoundDiv(u.velocity.z * last.delta, 1000))
            /\ u.capStart = Vec(u.position.x, u.position.y + 500, u.position.z)
            /\ u.capEnd = Vec(u.position.x, u.position.y + 1100, u.position.z)

\* an update of a loaded unit has moved it, and the capsule has moved with it
CapsuleSyncedWitness ==
    /\ UpdatedLoaded
    /\ last.delta > 0
    /\ units[last.stepped].position # last.pre.position
    /\ units[last.stepped].capStart # last.pre.capStart
    /\ units[last.stepped].capStart = VAdd(units[last.stepped].position, Vec(0, 500, 0))

\* C23: after any sequence of ticks from rest, with any inputs, the unit's
\* horizontal speed sqrt(velocity.x^2 + velocity.z^2) never exceeds 12.0, the
\* run speed
SpeedBounded ==
    charRef # 0 => SpeedSq(units[charRef]) <= RunSpeed * RunSpeed

\* C24: at the end of every checkCollisions call position.y >= 0, for every
\* list of static box obstacles and every position on entry
AboveFloor ==
    last.checked => units[last.stepped].position.y >= 0

\* C25: after checkCollisions with a single obstacle the unit's position is at
\* least a radius (to the rounding of the model, 0.002) from the obstacle box,
\* for every position on entry, a position strictly inside the box included
ClearOfBox ==
    (last.checked /\ Len(obstacles) = 1) =>
        Dot(Offset(units[last.stepped], obstacles[1]),
            Offset(units[last.stepped], obstacles[1])) >= (Radius - 2) * (Radius - 2)

\* a loaded character of the current customModelUrl is in the scene and
\* published to the tick loop
Published ==
    /\ charRef # 0
    /\ units[charRef].mixer
    /\ charRef \in inScene
    /\ units[charRef].url = AssetUrl(customModelUrl)

\* C26: if the canvas is mounted with a non-null customModelUrl and the load
\* succeeds, a character for that URL is eventually loaded, added to the scene
\* and published to the tick loop
MountedUrlLoads ==
    (last.op = "mount" /\ customModelUrl # NoUrl) ~> Published

\* C27: with no gamepad, after any sequence of key-down and key-up events each
\* direction flag (forward: W and Up, backward: S and Down, left: A and Left,
\* right: D and Right) is true exactly when at least one of its two keys is held
FlagsFollowKeys ==
    /\ controls.forward <=> held \cap {"KeyW", "ArrowUp"} # {}
    /\ controls.backward <=> held \cap {"KeyS", "ArrowDown"} # {}
    /\ controls.left <=> held \cap {"KeyA", "ArrowLeft"} # {}
    /\ controls.right <=> held \cap {"KeyD", "ArrowRight"} # {}

\* C28: after any sequence of update calls with any override values
\* currentAnimation is 'Idle' or a name of the animation table, and update and
\* checkCollisions leave the table of a loaded unit as load has filled it
AnimationInTable ==
    /\ \A i \in 1..Len(units) :
          units[i].currentAction = "Idle" \/ units[i].currentAction \in units[i].actions
    /\ (last.op \in {"update", "checkCollisions"} /\ last.pre.mixer) =>
          /\ units[last.stepped].actions = last.pre.actions
          /\ units[last.stepped].actions = Clips(units[last.stepped].url)

\* after a checkCollisions, an update under the override Dance has switched a
\* loaded unit from Idle to Dance, a name of its table
AnimationInTableWitness ==
    /\ last.op = "update" /\ prevOp = "checkCollisions"
    /\ testAnim = "Dance"
    /\ last.pre.currentAction = "Idle"
    /\ units[last.stepped].currentAction = "Dance"
    /\ "Dance" \in units[last.stepped].actions
====
